---- MODULE Spec2Model ----
(***************************************************************************)
(* Model of the extraction client of breenoolf/teste-kaizen:               *)
(*   src/src/api_client.py  ApiClient (login, _headers, _request,          *)
(*                          iter_all_pokemon, iter_all_combats)            *)
(*   src/src/etl.py         extract_all, transform (win statistics)        *)
(* Four state machines share the module:                                   *)
(*   SpecRequest   one client, a bounded number of data calls, each the    *)
(*                 caller's `headers=self._headers()` followed by the      *)
(*                 retry loop of _request, one loop iteration per step;    *)
(*   SpecPaginate  one run of a paginating generator against a server      *)
(*                 that slices a list of `total` records into pages;       *)
(*   SpecExtract   runs of extract_all over one cache directory: the three *)
(*                 phases, one request (or one yielded event) per step,    *)
(*                 each write_text as its open and its write-and-close,    *)
(*                 and an interrupt that may fall between any two steps;   *)
(*   SpecTransform the win, loss and win-rate tables transform computes    *)
(*                 from a normalised combats table, their merge with the   *)
(*                 attrs table and the sort of the result, on each of the  *)
(*                 pandas releases whose behaviour differs.                *)
(***************************************************************************)
EXTENDS Integers, Sequences, FiniteSets, TLC

(* ------------------------------ bounds -------------------------------- *)

\* distinct token strings the login endpoint may hand out
MaxTok == 2
\* largest number of seconds a Retry-After header carries
MaxRetryAfter == 2
\* data calls made on one client
MaxCalls == 2
\* largest server-side record count
MaxTotal == 6
\* largest page size (configured or served)
MaxPP == 3
\* largest configured max_combats
MaxCap == 6
\* pokemon identities the server knows
MaxId == 2
\* longest basic list the server serves
MaxBasic == 2
\* longest detail artifact found in the cache directory before the first run
MaxCached == 2
\* runs of extract_all over the same cache directory
MaxRuns == 2
\* rows of the combats table given to transform
MaxEvents == 3
\* rows of the attrs table given to transform
MaxAttrs == 2

(* ------------------------- program constants -------------------------- *)

max_retries_Six == 5 + 1

\* ApiClient.__init__: self.max_retries = 5
max_retries == 5
\* ApiClient.__init__: self._token = None
NoToken == 0
\* dict.get of a key the JSON body does not hold: None
Missing == -1
\* extract_all: if len(combats) % 500 == 0
CheckpointEvery == 500
\* ApiConfig.per_page_combats
per_page_combats_default == 100
\* ApiConfig.max_combats
max_combats_default == 5000

VARIABLES
    token,        \* ApiClient._token (NoToken: None)
    pc,           \* position of the client: "idle", "send" (inside the loop of _request), "done", "raised"
    attempt,      \* loop variable of _request
    hdr,          \* token inside kwargs["headers"] of the running _request
    result,       \* status code of the response _request returned (0: none yet)
    log,          \* what the running call did so far: requests, logins, sleeps, in order
    calls,        \* data calls started on this client
    lastLogin,    \* the last login() of the running call: the token held before it, the response
    session,      \* this client so far, kept while no data response was 401: login() calls,
                  \* whether one failed, whether a data request was sent
    which,        \* the generator that runs: "pokemon", "combats" ("none": no generator)
    total,        \* server: number of records of the collection
    srvPP,        \* server: page size it slices with
    missing,      \* server: envelope fields it leaves out, subset of {"list", "total", "per_page"}
    per_page_cfg, \* cfg.per_page_pokemon / cfg.per_page_combats of the running generator
    max_combats,  \* cfg.max_combats
    ppc,          \* position of the generator: "off", "fetch", "yield", "suspended", "done", "raised"
    page,         \* local `page`
    data,         \* local `data`: the envelope's per_page and total as received
    buf,          \* records of the current page not yet yielded
    yielded,      \* records yielded so far, in order
    pagesReq,     \* page numbers requested so far, in order
    run,          \* runs of extract_all started so far
    refresh,      \* _should_refresh() of the current run (FORCE_REFRESH)
    xpc,          \* position of extract_all: "idle", "p1", "p1open", "p1write", "p2", "p2fetch",
                  \* "p2open", "p2write", "p3", "p3run", "p3ckopen", "p3ckwrite", "p3write",
                  \* "p3return", "end"; "p1raise", "p2raise", "p3raise": in the client, an
                  \* error response received and raise_for_status not yet run
    outcome,      \* of the current run: "none", "running", "finished", "aborted" (an exception), "killed"
    prevRun,      \* the run before the current one: its outcome and its refresh override
    srvBasic,     \* server: the basic list, as ids in server order
    diskBasic,    \* data/raw/pokemon_basic.json: [exists, content: ids]
    diskAttrs,    \* data/raw/pokemon_attributes.json: [exists, content: records [id, ver]]
    diskCombats,  \* data/raw/combats.json: [exists, content: number of records, a prefix of the server's events]
    start,        \* the three artifacts as the current run found them
    pokemon_basic, \* local `pokemon_basic`, as ids
    attributes,   \* local `attributes`
    missing_ids,  \* local `missing`, the part not fetched yet
    combats,      \* len(combats) of the local list `combats`
    evLeft,       \* events of the current page the generator has not yielded yet
    reqLog,       \* requests of the current run, in order: [kind, arg]
    failedAt,     \* Len(reqLog) when a request of the run ended in an error status (0: none did)
    tpc,          \* position of transform: "off", "loaded" (combats normalised, line 168), "wins",
                  \* "losses", "merged", "enriched", "done" (stats sorted, line 191), "raised"
                  \* (KeyError out of line 182)
    pandas,       \* the pandas release transform runs on, one of PandasReleases
    attrs_df,     \* DataFrame `attrs`: rows [id, name]; its other columns come along with id
    combats_df,   \* DataFrame `combats` after line 168: rows [first_pokemon, second_pokemon, winner] of names
    wins,         \* DataFrame `wins`: name -> wins, one row per name that won
    losses,       \* DataFrame `losses`: [key: label of its first column, index: the names that
                  \* lost, in row order, count: name -> losses]
    stats         \* DataFrame `stats`: rows [name, wins, losses, total_combats, win_rate], and id
                  \* after the merge of line 188

reqVars == <<token, pc, attempt, hdr, result, log, calls, lastLogin, session>>
srvVars == <<which, total, srvPP, missing, per_page_cfg, max_combats>>
pagVars == <<ppc, page, data, buf, yielded, pagesReq>>
extVars == <<run, refresh, xpc, outcome, prevRun, srvBasic, diskBasic, diskAttrs, diskCombats,
             start, pokemon_basic, attributes, missing_ids, combats, evLeft, reqLog, failedAt>>
trVars == <<tpc, pandas, attrs_df, combats_df, wins, losses, stats>>
vars == <<token, pc, attempt, hdr, result, log, calls, lastLogin, session,
          which, total, srvPP, missing, per_page_cfg, max_combats,
          ppc, page, data, buf, yielded, pagesReq,
          run, refresh, xpc, outcome, prevRun, srvBasic, diskBasic, diskAttrs, diskCombats,
          start, pokemon_basic, attributes, missing_ids, combats, evLeft, reqLog, failedAt,
          tpc, pandas, attrs_df, combats_df, wins, losses, stats>>

(* ------------------------------ helpers ------------------------------- *)

RECURSIVE Pow2(_)
\* 2 ** n
Pow2(n) == IF n = 0 THEN 1 ELSE 2 * Pow2(n - 1)

Min(a, b) == IF a <= b THEN a ELSE b

(* --------------------------- cache artifacts -------------------------- *)

\* a file of data/raw that does not exist
NoFile == [exists |-> FALSE, json |-> FALSE, content |-> <<>>]

\* a file of data/raw holding the JSON list c
File(c) == [exists |-> TRUE, json |-> TRUE, content |-> c]

\* a file of data/raw that Path.write_text has opened (mode "w" truncates it) and not
\* yet written and closed: it exists and holds no JSON document
Truncated == [exists |-> TRUE, json |-> FALSE, content |-> <<>>]

\* combats.json not existing (the model keeps the number of records of that file)
NoCombats == [exists |-> FALSE, json |-> FALSE, content |-> 0]

\* combats.json opened by Path.write_text and not yet written and closed
TruncatedCombats == [exists |-> TRUE, json |-> FALSE, content |-> 0]

\* extract_all not running: the state of its variables in the other two machines
ExtractOff ==
    /\ run = 0
    /\ refresh = FALSE
    /\ xpc = "idle"
    /\ outcome = "none"
    /\ prevRun = [outcome |-> "none", refresh |-> FALSE]
    /\ srvBasic = <<>>
    /\ diskBasic = NoFile
    /\ diskAttrs = NoFile
    /\ diskCombats = NoCombats
    /\ start = [basic |-> NoFile, attrs |-> NoFile, combats |-> NoCombats]
    /\ pokemon_basic = <<>>
    /\ attributes = <<>>
    /\ missing_ids = <<>>
    /\ combats = 0
    /\ evLeft = 0
    /\ reqLog = <<>>
    /\ failedAt = 0

\* transform is not running
TransformOff ==
    /\ tpc = "off"
    /\ pandas = "2.2"
    /\ attrs_df = <<>>
    /\ combats_df = <<>>
    /\ wins = <<>>
    /\ losses = <<>>
    /\ stats = <<>>

(* ------------------------- the HTTP exchange -------------------------- *)

Tokens == 1..MaxTok

\* what POST /login may answer: 200 with access_token (tok: its value), an error status
\* (429 when rate limited), 200 with no token at all, 200 with a token under `token` or
\* `jwt` and no access_token
LoginResponses ==
    [kind : {"ok"}, tok : Tokens]
        \cup [kind : {"http_error", "rate_limited", "no_token", "alt_field"}, tok : {NoToken}]

\* the status code of a login response
LoginStatus(r) ==
    CASE r.kind = "http_error" -> 500
      [] r.kind = "rate_limited" -> 429
      [] OTHER -> 200

\* resp.raise_for_status() raises HTTPError
StatusRaises(status) == status >= 400

\* a client just constructed: no login(), no data request
NewSession == [no401 |-> TRUE, logins |-> 0, failed |-> FALSE, sent |-> FALSE]

\* a client one of whose data requests was answered 401: nothing more is recorded
Session401 == [no401 |-> FALSE, logins |-> 0, failed |-> FALSE, sent |-> FALSE]

\* the record after a login() answered r
SessionLogin(ss, r) ==
    IF ss.no401
    THEN [ss EXCEPT !.logins = @ + 1, !.failed = @ \/ r.kind # "ok"]
    ELSE ss

\* the record after a data request answered with status
SessionData(ss, status) ==
    IF ss.no401 /\ status # 401 THEN [ss EXCEPT !.sent = TRUE] ELSE Session401

\* no login() in the running call yet
NoLogin == [held |-> NoToken, resp |-> [kind |-> "none", tok |-> NoToken]]

\* the Retry-After header of a response: not sent, sent empty, a number of seconds, other text
RetryAfterHeaders ==
    [kind : {"absent", "empty", "text"}, secs : {0}] \cup [kind : {"secs"}, secs : 0..MaxRetryAfter]

NoRetryAfter == [kind |-> "absent", secs |-> 0]

Statuses == {200, 401, 429, 500}

\* one entry of log
Ev(e, t, s, h, d) == [ev |-> e, tok |-> t, status |-> s, ra |-> h, d |-> d]

RequestEv(t, s, h) == Ev("request", t, s, h, 0)

LoginEv(r) == Ev("login", r.tok, LoginStatus(r), NoRetryAfter, 0)

SleepEv(d) == Ev("sleep", NoToken, 0, NoRetryAfter, d)

(* ------------------------------- login -------------------------------- *)

login_token_NotStored(tok, r) == tok

login_token_KeptOnFailure(tok, r) == IF r.kind = "ok" THEN r.tok ELSE tok

\* login(): the stored token after the call. raise_for_status() raises before the
\* assignment; otherwise self._token = resp.json().get("access_token")
login_token(tok, r) == IF StatusRaises(LoginStatus(r)) THEN tok ELSE r.tok

login_raises_OnlyHttpError(r) == StatusRaises(LoginStatus(r))

\* login() raises: HTTPError, or RuntimeError("No access_token in login response")
login_raises(r) == r.kind # "ok"

(* ------------------------------ _request ------------------------------ *)

Is401Retry_NoBudget(s, a) == s = 401 /\ a < max_retries

\* for attempt in range(self.max_retries): another iteration follows iteration a
RangeHasNext(a) == a + 1 < max_retries

\* if resp.status_code == 401 and attempt < self.max_retries - 1
Is401Retry(s, a) == s = 401 /\ a < max_retries - 1

Is429Retry_Also500(s, a) == s \in {429, 500} /\ a < max_retries - 1

\* if resp.status_code == 429 and attempt < self.max_retries - 1
Is429Retry(s, a) == s = 429 /\ a < max_retries - 1

\* `if retry_after`: a non-empty string
HasRetryAfter(h) == h.kind \in {"secs", "text"}

\* float(retry_after) raises ValueError
FloatRaises(h) == h.kind = "text"

Delay_Linear(h, a) == IF HasRetryAfter(h) THEN h.secs ELSE a + 1

\* delay = float(retry_after) if retry_after else (2 ** attempt)
Delay(h, a) == IF HasRetryAfter(h) THEN h.secs ELSE Pow2(a)

HeaderAfterRelogin_Stale(old, tok) == old

\* kwargs["headers"] = self._headers(), evaluated after login() has stored tok
HeaderAfterRelogin(old, tok) == tok

\* get_pokemon_page / get_pokemon_attributes / get_combats_page: headers=self._headers()
\* with a token held; then _request enters its loop
CallWithToken ==
    /\ pc \in {"idle", "done", "raised"}
    /\ calls < MaxCalls
    /\ token # NoToken
    /\ calls' = calls + 1
    /\ hdr' = token
    /\ attempt' = 0
    /\ result' = 0
    /\ log' = <<>>
    /\ pc' = "send"
    /\ lastLogin' = NoLogin
    /\ UNCHANGED <<token, session>>
    /\ UNCHANGED <<srvVars, trVars, pagVars, extVars>>

\* headers=self._headers() with no token held: _headers() logs in first
CallLogin ==
    /\ pc \in {"idle", "done", "raised"}
    /\ calls < MaxCalls
    /\ token = NoToken
    /\ \E r \in LoginResponses :
        /\ token' = login_token(token, r)
        /\ log' = <<LoginEv(r)>>
        /\ lastLogin' = [held |-> token, resp |-> r]
        /\ session' = SessionLogin(session, r)
        /\ hdr' = IF login_raises(r) THEN NoToken ELSE login_token(token, r)
        /\ pc' = IF login_raises(r) THEN "raised" ELSE "send"
    /\ calls' = calls + 1
    /\ attempt' = 0
    /\ result' = 0
    /\ UNCHANGED <<srvVars, trVars, pagVars, extVars>>

\* one loop iteration answered 401 with attempts left: login(), new headers, continue
\* (a `continue` out of the last iteration falls to the final `return resp`)
Retry401 ==
    /\ pc = "send"
    /\ attempt < max_retries
    /\ Is401Retry(401, attempt)
    /\ \E r \in LoginResponses :
        /\ token' = login_token(token, r)
        /\ log' = log \o <<RequestEv(hdr, 401, NoRetryAfter), LoginEv(r)>>
        /\ lastLogin' = [held |-> token, resp |-> r]
        /\ IF login_raises(r)
           THEN pc' = "raised" /\ UNCHANGED <<hdr, attempt, result>>
           ELSE /\ hdr' = HeaderAfterRelogin(hdr, login_token(token, r))
                /\ attempt' = attempt + 1
                /\ pc' = IF RangeHasNext(attempt) THEN "send" ELSE "done"
                /\ result' = IF RangeHasNext(attempt) THEN result ELSE 401
    /\ session' = SessionData(session, 401)
    /\ UNCHANGED calls
    /\ UNCHANGED <<srvVars, trVars, pagVars, extVars>>

\* one loop iteration answered 429 (or a status handled like it) with attempts
\* left: sleep, continue; float() of a header that is no number raises
Retry429 ==
    /\ pc = "send"
    /\ attempt < max_retries
    /\ \E s \in Statuses, h \in RetryAfterHeaders :
        /\ ~Is401Retry(s, attempt)
        /\ Is429Retry(s, attempt)
        /\ s # 429 => h = NoRetryAfter
        /\ session' = SessionData(session, s)
        /\ IF HasRetryAfter(h) /\ FloatRaises(h)
           THEN /\ log' = Append(log, RequestEv(hdr, s, h))
                /\ pc' = "raised"
                /\ UNCHANGED <<attempt, result>>
           ELSE /\ log' = log \o <<RequestEv(hdr, s, h), SleepEv(Delay(h, attempt))>>
                /\ attempt' = attempt + 1
                /\ pc' = IF RangeHasNext(attempt) THEN "send" ELSE "done"
                /\ result' = IF RangeHasNext(attempt) THEN result ELSE s
    /\ UNCHANGED <<token, hdr, calls, lastLogin>>
    /\ UNCHANGED <<srvVars, trVars, pagVars, extVars>>

\* one loop iteration whose response is neither retried as 401 nor as 429: return resp
Return ==
    /\ pc = "send"
    /\ attempt < max_retries
    /\ \E s \in Statuses, h \in RetryAfterHeaders :
        /\ ~Is401Retry(s, attempt)
        /\ ~Is429Retry(s, attempt)
        /\ s # 429 => h = NoRetryAfter
        /\ log' = Append(log, RequestEv(hdr, s, h))
        /\ result' = s
        /\ session' = SessionData(session, s)
    /\ pc' = "done"
    /\ UNCHANGED <<token, hdr, attempt, calls, lastLogin>>
    /\ UNCHANGED <<srvVars, trVars, pagVars, extVars>>

InitRequest ==
    /\ token = NoToken
    /\ pc = "idle"
    /\ attempt = 0
    /\ hdr = NoToken
    /\ result = 0
    /\ log = <<>>
    /\ calls = 0
    /\ lastLogin = NoLogin
    /\ session = NewSession
    /\ which = "none"
    /\ total = 0
    /\ srvPP = 1
    /\ missing = {}
    /\ per_page_cfg = 1
    /\ max_combats = 0
    /\ ppc = "off"
    /\ page = 1
    /\ data = [per_page |-> Missing, total |-> Missing]
    /\ buf = <<>>
    /\ yielded = <<>>
    /\ pagesReq = <<>>
    /\ ExtractOff
    /\ TransformOff

NextRequest ==
    \/ CallWithToken
    \/ CallLogin
    \/ Retry401
    \/ Retry429
    \/ Return

SpecRequest == InitRequest /\ [][NextRequest]_vars

(* --------------------------- the paginators --------------------------- *)

\* server: the records of page p, positions (p-1)*srvPP+1 .. min(p*srvPP, total)
ServerPage(p) ==
    [k \in 1..(Min(p * srvPP, total) - Min((p - 1) * srvPP, total)) |-> (p - 1) * srvPP + k]

\* server: the JSON body of GET /pokemon or /combats for page p (a left-out field reads None)
Envelope(p) ==
    [list |-> IF "list" \in missing THEN <<>> ELSE ServerPage(p),
     has_list |-> "list" \notin missing,
     per_page |-> IF "per_page" \in missing THEN Missing ELSE srvPP,
     total |-> IF "total" \in missing THEN Missing ELSE total]

\* data.get("pokemons") or [] / data.get("combats") or []
resp_list(e) == IF e.has_list THEN e.list ELSE <<>>

\* data.get("total") or 0
resp_total(t) == IF t = Missing \/ t = 0 THEN 0 ELSE t

resp_per_page_Requested(pp, cfgpp) == cfgpp

\* data.get("per_page") or self.cfg.per_page_pokemon / per_page_combats
resp_per_page(pp, cfgpp) == IF pp = Missing \/ pp = 0 THEN cfgpp ELSE pp

last_page_Strict(p, pp, t) == p * pp > t

\* if page * per_page >= total: break
last_page(p, pp, t) == p * pp >= t

\* if page * (data.get("per_page") or self.cfg.per_page_combats) >= self.cfg.max_combats: return
cap_reached(p, pp, cap) == p * pp >= cap

\* data = self.get_pokemon_page(page) / self.get_combats_page(page), answered 2xx
FetchPage ==
    /\ ppc = "fetch"
    /\ pagesReq' = Append(pagesReq, page)
    /\ data' = [per_page |-> Envelope(page).per_page, total |-> Envelope(page).total]
    /\ buf' = resp_list(Envelope(page))
    /\ ppc' = "yield"
    /\ UNCHANGED <<page, yielded, srvVars, trVars, reqVars, extVars>>

\* the page request ends in an error status: resp.raise_for_status() raises out of the generator
FetchRaises ==
    /\ ppc = "fetch"
    /\ pagesReq' = Append(pagesReq, page)
    /\ ppc' = "raised"
    /\ UNCHANGED <<page, data, buf, yielded, srvVars, trVars, reqVars, extVars>>

\* iter_all_pokemon: for p in pokemons: yield p
YieldPokemon ==
    /\ ppc = "yield"
    /\ which = "pokemon"
    /\ buf # <<>>
    /\ yielded' = Append(yielded, Head(buf))
    /\ buf' = Tail(buf)
    /\ UNCHANGED <<ppc, page, data, pagesReq, srvVars, trVars, reqVars, extVars>>

\* iter_all_combats: for c in combats: yield c. The generator hands the record to its
\* consumer and stays suspended at the yield until the consumer asks for the next one.
YieldCombat ==
    /\ ppc = "yield"
    /\ which = "combats"
    /\ buf # <<>>
    /\ yielded' = Append(yielded, Head(buf))
    /\ buf' = Tail(buf)
    /\ ppc' = "suspended"
    /\ UNCHANGED <<page, data, pagesReq, srvVars, trVars, reqVars, extVars>>

\* iter_all_combats resumed after the yield: the cap test, then return or the next iteration
ResumeCombat ==
    /\ ppc = "suspended"
    /\ which = "combats"
    /\ ppc' = IF cap_reached(page, resp_per_page(data.per_page, per_page_cfg), max_combats)
              THEN "done" ELSE "yield"
    /\ UNCHANGED <<page, data, buf, yielded, pagesReq, srvVars, trVars, reqVars, extVars>>

\* after the for loop: the stop test, then break or page += 1
PageEnd ==
    /\ ppc = "yield"
    /\ buf = <<>>
    /\ IF last_page(page, resp_per_page(data.per_page, per_page_cfg), resp_total(data.total))
       THEN ppc' = "done" /\ UNCHANGED page
       ELSE ppc' = "fetch" /\ page' = page + 1
    /\ UNCHANGED <<data, buf, yielded, pagesReq, srvVars, trVars, reqVars, extVars>>

\* a generator just created (page = 1), for each configuration and each server
InitPaginate ==
    /\ which \in {"pokemon", "combats"}
    /\ total \in 0..MaxTotal
    /\ srvPP \in 1..MaxPP
    /\ per_page_cfg \in 1..MaxPP
    /\ missing \in SUBSET {"list", "total", "per_page"}
    /\ "per_page" \in missing => srvPP = per_page_cfg
    /\ max_combats \in 0..MaxCap
    /\ ppc = "fetch"
    /\ page = 1
    /\ data = [per_page |-> Missing, total |-> Missing]
    /\ buf = <<>>
    /\ yielded = <<>>
    /\ pagesReq = <<>>
    /\ token = NoToken
    /\ pc = "idle"
    /\ attempt = 0
    /\ hdr = NoToken
    /\ result = 0
    /\ log = <<>>
    /\ calls = 0
    /\ lastLogin = NoLogin
    /\ session = NewSession
    /\ ExtractOff
    /\ TransformOff

NextPaginate ==
    \/ FetchPage
    \/ FetchRaises
    \/ YieldPokemon
    \/ YieldCombat
    \/ ResumeCombat
    \/ PageEnd

SpecPaginate == InitPaginate /\ [][NextPaginate]_vars

(* ----------------------------- extract_all ---------------------------- *)

Ids == 1..MaxId

\* the basic lists a server may serve (an id may be listed more than once)
BasicLists == UNION {[1..n -> Ids] : n \in 0..MaxBasic}

\* one record of pokemon_attributes.json: GET /pokemon/{i} as answered during run v
\* (v = 0: a record that was in the cache before the first run)
Rec(i, v) == [id |-> i, ver |-> v]

\* the detail artifacts that may lie in the cache directory before the first run: one
\* record per id, ids ascending (an artifact with a repeated id is left by a run)
CachedAttrLists ==
    UNION {{[k \in 1..n |-> Rec(l[k], 0)] :
               l \in {m \in [1..n -> Ids] : \A j, k \in 1..n : j < k => m[j] < m[k]}} :
           n \in 0..MaxCached}

\* the event totals a server may report: around the checkpoint period and twice it
EvTotals ==
    {0, CheckpointEvery - 1, CheckpointEvery, 2 * CheckpointEvery, 2 * CheckpointEvery + 1}

\* one entry of reqLog
Req(k, a) == [kind |-> k, arg |-> a]

\* the ids of a list of records
IdsOf(recs) == {recs[k].id : k \in DOMAIN recs}

UseCache_Never(disk) == FALSE

\* path.exists() and not _should_refresh()
UseCache(disk) == disk.exists /\ ~refresh

\* [int(p["id"]) for p in pokemon_basic if int(p["id"]) not in existing_ids]
RECURSIVE MissingFrom(_, _)
MissingFrom(basic, existing) ==
    IF basic = <<>> THEN <<>>
    ELSE IF Head(basic) \in existing THEN MissingFrom(Tail(basic), existing)
    ELSE <<Head(basic)>> \o MissingFrom(Tail(basic), existing)

\* old[int(a.get("id"))] = a, on a dict kept as its list of values in insertion order
DictAssign(d, a) ==
    IF \E k \in DOMAIN d : d[k].id = a.id
    THEN [k \in DOMAIN d |-> IF d[k].id = a.id THEN a ELSE d[k]]
    ELSE Append(d, a)

RECURSIVE DictOf(_, _)
\* d after `for a in recs: d[int(a.get("id"))] = a`
DictOf(d, recs) == IF recs = <<>> THEN d ELSE DictOf(DictAssign(d, Head(recs)), Tail(recs))

\* old = {id: a for a in _read_json(path_attrs)}; for a in attributes: old[id] = a;
\* list(old.values())
Merge(file, attrs) == DictOf(DictOf(<<>>, file), attrs)

PersistedAttrs_BasicOnly(file, attrs) ==
    SelectSeq(IF UseCache(file) THEN Merge(file.content, attrs) ELSE attrs,
              LAMBDA a : \E k \in DOMAIN pokemon_basic : pokemon_basic[k] = a.id)

\* lines 99-104: what phase 2 writes, given the file it found and the local list
PersistedAttrs(file, attrs) == IF UseCache(file) THEN Merge(file.content, attrs) ELSE attrs

OnHttpError_Swallowed == "running"

\* resp.raise_for_status() raises and nothing in extract_all catches it
OnHttpError == "aborted"

\* between the return of _request with an error status and raise_for_status
RaisePositions == {"p1raise", "p2raise", "p3raise"}

\* the statement of extract_all that called the client: line 77, 95 or 113
CallSite(x) == CASE x = "p1raise" -> "p1" [] x = "p2raise" -> "p2fetch" [] x = "p3raise" -> "p3run"

\* if len(combats) % 500 == 0
IsCheckpoint(n) == n % CheckpointEvery = 0

\* the length of the list the last checkpoint write of a fetch of n events wrote: the
\* largest multiple of the period that is not above n
LastCheckpoint(n) == (n \div CheckpointEvery) * CheckpointEvery

\* server: the number of records of page p of /combats
PageCount(p) == Min(p * srvPP, total) - Min((p - 1) * srvPP, total)

\* extract_all is called: cfg, client, ensure_dirs()
RunStart ==
    /\ outcome # "running"
    /\ run < MaxRuns
    /\ run' = run + 1
    /\ refresh' \in BOOLEAN
    /\ prevRun' = [outcome |-> outcome, refresh |-> refresh]
    /\ xpc' = "p1"
    /\ outcome' = "running"
    /\ start' = [basic |-> diskBasic, attrs |-> diskAttrs, combats |-> diskCombats]
    /\ pokemon_basic' = <<>>
    /\ attributes' = <<>>
    /\ missing_ids' = <<>>
    /\ combats' = 0
    /\ evLeft' = 0
    /\ reqLog' = <<>>
    /\ failedAt' = 0
    /\ page' = 1
    /\ ppc' = "off"
    /\ data' = [per_page |-> Missing, total |-> Missing]
    /\ UNCHANGED <<srvBasic, diskBasic, diskAttrs, diskCombats, buf, yielded, pagesReq,
                   srvVars, trVars, reqVars>>

\* phase 1, cache branch: pokemon_basic = _read_json(path_basic)
P1Reuse ==
    /\ outcome = "running" /\ xpc = "p1"
    /\ UseCache(diskBasic)
    /\ diskBasic.json
    /\ pokemon_basic' = diskBasic.content
    /\ xpc' = "p2"
    /\ UNCHANGED <<run, refresh, outcome, prevRun, srvBasic, diskBasic, diskAttrs, diskCombats,
                   start, attributes, missing_ids, combats, evLeft, reqLog, failedAt,
                   srvVars, trVars, pagVars, reqVars>>

\* phase 1, cache branch: the file holds no JSON document, json.load raises
\* JSONDecodeError out of extract_all
P1ReuseFails ==
    /\ outcome = "running" /\ xpc = "p1"
    /\ UseCache(diskBasic)
    /\ ~diskBasic.json
    /\ outcome' = "aborted"
    /\ UNCHANGED <<run, refresh, xpc, prevRun, srvBasic, diskBasic, diskAttrs, diskCombats,
                   start, pokemon_basic, attributes, missing_ids, combats, evLeft, reqLog,
                   failedAt, srvVars, trVars, pagVars, reqVars>>

\* phase 1, fetch branch: pokemon_basic = list(client.iter_all_pokemon())
P1Fetch ==
    /\ outcome = "running" /\ xpc = "p1"
    /\ ~UseCache(diskBasic)
    /\ reqLog' = Append(reqLog, Req("basic", 0))
    /\ pokemon_basic' = srvBasic
    /\ xpc' = "p1open"
    /\ UNCHANGED <<run, refresh, outcome, prevRun, srvBasic, diskBasic, diskAttrs, diskCombats,
                   start, attributes, missing_ids, combats, evLeft, failedAt,
                   srvVars, trVars, pagVars, reqVars>>

\* phase 1, path_basic.write_text: the file is opened with mode "w"
P1Open ==
    /\ outcome = "running" /\ xpc = "p1open"
    /\ diskBasic' = Truncated
    /\ xpc' = "p1write"
    /\ UNCHANGED <<run, refresh, outcome, prevRun, srvBasic, diskAttrs, diskCombats,
                   start, pokemon_basic, attributes, missing_ids, combats, evLeft, reqLog,
                   failedAt, srvVars, trVars, pagVars, reqVars>>

\* phase 1, path_basic.write_text: the document is written and the file closed
P1Write ==
    /\ outcome = "running" /\ xpc = "p1write"
    /\ diskBasic' = File(pokemon_basic)
    /\ xpc' = "p2"
    /\ UNCHANGED <<run, refresh, outcome, prevRun, srvBasic, diskAttrs, diskCombats,
                   start, pokemon_basic, attributes, missing_ids, combats, evLeft, reqLog,
                   failedAt, srvVars, trVars, pagVars, reqVars>>

\* phase 1, fetch branch: _request of get_pokemon_page (line 139) returns a response
\* that keeps an error status
P1FetchFails ==
    /\ outcome = "running" /\ xpc = "p1"
    /\ ~UseCache(diskBasic)
    /\ reqLog' = Append(reqLog, Req("basic", 0))
    /\ failedAt' = Len(reqLog) + 1
    /\ xpc' = "p1raise"
    /\ UNCHANGED <<run, refresh, outcome, prevRun, srvBasic, diskBasic, diskAttrs, diskCombats,
                   start, pokemon_basic, attributes, missing_ids, combats, evLeft,
                   srvVars, trVars, pagVars, reqVars>>

\* phase 2, lines 81-90: attributes and missing
P2Begin ==
    /\ outcome = "running" /\ xpc = "p2"
    /\ UseCache(diskAttrs) => diskAttrs.json
    /\ IF UseCache(diskAttrs)
       THEN /\ attributes' = diskAttrs.content
            /\ missing_ids' = MissingFrom(pokemon_basic, IdsOf(diskAttrs.content))
       ELSE /\ attributes' = <<>>
            /\ missing_ids' = pokemon_basic
    /\ xpc' = "p2fetch"
    /\ UNCHANGED <<run, refresh, outcome, prevRun, srvBasic, diskBasic, diskAttrs, diskCombats,
                   start, pokemon_basic, combats, evLeft, reqLog, failedAt,
                   srvVars, trVars, pagVars, reqVars>>

\* phase 2, line 85: the file holds no JSON document, json.load raises JSONDecodeError
\* out of extract_all
P2BeginFails ==
    /\ outcome = "running" /\ xpc = "p2"
    /\ UseCache(diskAttrs)
    /\ ~diskAttrs.json
    /\ outcome' = "aborted"
    /\ UNCHANGED <<run, refresh, xpc, prevRun, srvBasic, diskBasic, diskAttrs, diskCombats,
                   start, pokemon_basic, attributes, missing_ids, combats, evLeft, reqLog,
                   failedAt, srvVars, trVars, pagVars, reqVars>>

\* phase 2: attributes.append(client.get_pokemon_attributes(pid)) for the next pid
P2Fetch ==
    /\ outcome = "running" /\ xpc = "p2fetch"
    /\ missing_ids # <<>>
    /\ reqLog' = Append(reqLog, Req("detail", Head(missing_ids)))
    /\ attributes' = Append(attributes, Rec(Head(missing_ids), run))
    /\ missing_ids' = Tail(missing_ids)
    /\ UNCHANGED <<run, refresh, xpc, outcome, prevRun, srvBasic, diskBasic, diskAttrs,
                   diskCombats, start, pokemon_basic, combats, evLeft, failedAt,
                   srvVars, trVars, pagVars, reqVars>>

\* phase 2: _request of get_pokemon_attributes (line 150) for the next pid returns a
\* response that keeps an error status
P2FetchFails ==
    /\ outcome = "running" /\ xpc = "p2fetch"
    /\ missing_ids # <<>>
    /\ reqLog' = Append(reqLog, Req("detail", Head(missing_ids)))
    /\ failedAt' = Len(reqLog) + 1
    /\ xpc' = "p2raise"
    /\ UNCHANGED <<run, refresh, outcome, prevRun, srvBasic, diskBasic, diskAttrs, diskCombats,
                   start, pokemon_basic, attributes, missing_ids, combats, evLeft,
                   srvVars, trVars, pagVars, reqVars>>

\* phase 2, lines 98-103: merge with the old file if it is used
P2Merge ==
    /\ outcome = "running" /\ xpc = "p2fetch"
    /\ missing_ids = <<>>
    /\ attributes' = PersistedAttrs(diskAttrs, attributes)
    /\ xpc' = "p2open"
    /\ UNCHANGED <<run, refresh, outcome, prevRun, srvBasic, diskBasic, diskAttrs, diskCombats,
                   start, pokemon_basic, missing_ids, combats, evLeft, reqLog, failedAt,
                   srvVars, trVars, pagVars, reqVars>>

\* phase 2, path_attrs.write_text: the file is opened with mode "w"
P2Open ==
    /\ outcome = "running" /\ xpc = "p2open"
    /\ diskAttrs' = Truncated
    /\ xpc' = "p2write"
    /\ UNCHANGED <<run, refresh, outcome, prevRun, srvBasic, diskBasic, diskCombats,
                   start, pokemon_basic, attributes, missing_ids, combats, evLeft, reqLog,
                   failedAt, srvVars, trVars, pagVars, reqVars>>

\* phase 2, path_attrs.write_text: the document is written and the file closed
P2Write ==
    /\ outcome = "running" /\ xpc = "p2write"
    /\ diskAttrs' = File(attributes)
    /\ xpc' = "p3"
    /\ UNCHANGED <<run, refresh, outcome, prevRun, srvBasic, diskBasic, diskCombats,
                   start, pokemon_basic, attributes, missing_ids, combats, evLeft, reqLog,
                   failedAt, srvVars, trVars, pagVars, reqVars>>

\* phase 3, cache branch: pass
P3Skip ==
    /\ outcome = "running" /\ xpc = "p3"
    /\ UseCache(diskCombats)
    /\ xpc' = "p3return"
    /\ UNCHANGED <<run, refresh, outcome, prevRun, srvBasic, diskBasic, diskAttrs, diskCombats,
                   start, pokemon_basic, attributes, missing_ids, combats, evLeft, reqLog,
                   failedAt, srvVars, trVars, pagVars, reqVars>>

\* phase 3, fetch branch: combats = [], the generator is created
P3Begin ==
    /\ outcome = "running" /\ xpc = "p3"
    /\ ~UseCache(diskCombats)
    /\ combats' = 0
    /\ page' = 1
    /\ ppc' = "fetch"
    /\ xpc' = "p3run"
    /\ UNCHANGED <<run, refresh, outcome, prevRun, srvBasic, diskBasic, diskAttrs, diskCombats,
                   start, pokemon_basic, attributes, missing_ids, evLeft, reqLog, failedAt,
                   data, buf, yielded, pagesReq, srvVars, trVars, reqVars>>

\* iter_all_combats: data = self.get_combats_page(page), answered 2xx
P3FetchPage ==
    /\ outcome = "running" /\ xpc = "p3run" /\ ppc = "fetch"
    /\ reqLog' = Append(reqLog, Req("events", page))
    /\ data' = [per_page |-> Envelope(page).per_page, total |-> Envelope(page).total]
    /\ evLeft' = PageCount(page)
    /\ ppc' = "yield"
    /\ UNCHANGED <<run, refresh, xpc, outcome, prevRun, srvBasic, diskBasic, diskAttrs,
                   diskCombats, start, pokemon_basic, attributes, missing_ids, combats,
                   failedAt, page, buf, yielded, pagesReq, srvVars, trVars, reqVars>>

\* iter_all_combats: _request of get_combats_page (line 176) returns a response that
\* keeps an error status
P3FetchFails ==
    /\ outcome = "running" /\ xpc = "p3run" /\ ppc = "fetch"
    /\ reqLog' = Append(reqLog, Req("events", page))
    /\ failedAt' = Len(reqLog) + 1
    /\ xpc' = "p3raise"
    /\ UNCHANGED <<run, refresh, outcome, prevRun, srvBasic, diskBasic, diskAttrs, diskCombats,
                   start, pokemon_basic, attributes, missing_ids, combats, evLeft,
                   srvVars, trVars, pagVars, reqVars>>

\* resp.raise_for_status() of get_pokemon_page, get_pokemon_attributes or
\* get_combats_page raises; the exception leaves the client (and its generator) and
\* extract_all at the statement that made the call
RaiseForStatus ==
    /\ outcome = "running" /\ xpc \in RaisePositions
    /\ outcome' = OnHttpError
    /\ xpc' = CallSite(xpc)
    /\ UNCHANGED <<run, refresh, prevRun, srvBasic, diskBasic, diskAttrs, diskCombats,
                   start, pokemon_basic, attributes, missing_ids, combats, evLeft, reqLog,
                   failedAt, srvVars, trVars, pagVars, reqVars>>

\* one event: the generator yields it and stays suspended at the yield; extract_all
\* appends it (line 114) and tests len(combats) % 500 (line 116)
P3Yield ==
    /\ outcome = "running" /\ xpc = "p3run" /\ ppc = "yield"
    /\ evLeft > 0
    /\ combats' = combats + 1
    /\ evLeft' = evLeft - 1
    /\ ppc' = "suspended"
    /\ xpc' = IF IsCheckpoint(combats + 1) THEN "p3ckopen" ELSE "p3run"
    /\ UNCHANGED <<run, refresh, outcome, prevRun, srvBasic, diskBasic, diskAttrs, diskCombats,
                   start, pokemon_basic, attributes, missing_ids, reqLog, failedAt,
                   page, data, buf, yielded, pagesReq, srvVars, trVars, reqVars>>

\* the checkpoint, path_comb.write_text of line 117: the file is opened with mode "w"
P3CheckpointOpen ==
    /\ outcome = "running" /\ xpc = "p3ckopen"
    /\ diskCombats' = TruncatedCombats
    /\ xpc' = "p3ckwrite"
    /\ UNCHANGED <<run, refresh, outcome, prevRun, srvBasic, diskBasic, diskAttrs,
                   start, pokemon_basic, attributes, missing_ids, combats, evLeft, reqLog,
                   failedAt, srvVars, trVars, pagVars, reqVars>>

\* the checkpoint, path_comb.write_text of line 117: the document is written and the
\* file closed
P3Checkpoint ==
    /\ outcome = "running" /\ xpc = "p3ckwrite"
    /\ diskCombats' = File(combats)
    /\ xpc' = "p3run"
    /\ UNCHANGED <<run, refresh, outcome, prevRun, srvBasic, diskBasic, diskAttrs,
                   start, pokemon_basic, attributes, missing_ids, combats, evLeft, reqLog,
                   failedAt, srvVars, trVars, pagVars, reqVars>>

\* the for statement of line 113 asks for the next event: iter_all_combats resumes
\* after its yield with the cap test, then returns or goes on
P3Resume ==
    /\ outcome = "running" /\ xpc = "p3run" /\ ppc = "suspended"
    /\ ppc' = IF cap_reached(page, resp_per_page(data.per_page, per_page_cfg), max_combats)
              THEN "done" ELSE "yield"
    /\ UNCHANGED <<extVars, page, data, buf, yielded, pagesReq, srvVars, trVars, reqVars>>

\* iter_all_combats after the for loop: the stop test, then break or page += 1
P3PageEnd ==
    /\ outcome = "running" /\ xpc = "p3run" /\ ppc = "yield"
    /\ evLeft = 0
    /\ IF last_page(page, resp_per_page(data.per_page, per_page_cfg), resp_total(data.total))
       THEN ppc' = "done" /\ UNCHANGED page
       ELSE ppc' = "fetch" /\ page' = page + 1
    /\ UNCHANGED <<extVars, data, buf, yielded, pagesReq, srvVars, trVars, reqVars>>

\* phase 3: the generator is exhausted; path_comb.write_text of line 118 opens the
\* file with mode "w"
P3FinalOpen ==
    /\ outcome = "running" /\ xpc = "p3run" /\ ppc = "done"
    /\ diskCombats' = TruncatedCombats
    /\ xpc' = "p3write"
    /\ UNCHANGED <<run, refresh, outcome, prevRun, srvBasic, diskBasic, diskAttrs,
                   start, pokemon_basic, attributes, missing_ids, combats, evLeft, reqLog,
                   failedAt, srvVars, trVars, pagVars, reqVars>>

\* phase 3, path_comb.write_text of line 118: the document is written and the file
\* closed
P3FinalWrite ==
    /\ outcome = "running" /\ xpc = "p3write"
    /\ diskCombats' = File(combats)
    /\ xpc' = "p3return"
    /\ UNCHANGED <<run, refresh, outcome, prevRun, srvBasic, diskBasic, diskAttrs,
                   start, pokemon_basic, attributes, missing_ids, combats, evLeft, reqLog,
                   failedAt, srvVars, trVars, pagVars, reqVars>>

\* lines 120-124: extract_all returns the three paths
P3Finish ==
    /\ outcome = "running" /\ xpc = "p3return"
    /\ xpc' = "end"
    /\ outcome' = "finished"
    /\ UNCHANGED <<run, refresh, prevRun, srvBasic, diskBasic, diskAttrs, diskCombats,
                   start, pokemon_basic, attributes, missing_ids, combats, evLeft, reqLog,
                   failedAt, srvVars, trVars, pagVars, reqVars>>

\* the process is killed or interrupted from outside, at any point of the run, a
\* write_text between its open and its close included: the files stay as they are, the
\* requests sent stay sent, and the process with its local variables and its generator
\* is gone
Kill ==
    /\ outcome = "running"
    /\ outcome' = "killed"
    /\ xpc' = "idle"
    /\ pokemon_basic' = <<>>
    /\ attributes' = <<>>
    /\ missing_ids' = <<>>
    /\ combats' = 0
    /\ evLeft' = 0
    /\ page' = 1
    /\ ppc' = "off"
    /\ data' = [per_page |-> Missing, total |-> Missing]
    /\ UNCHANGED <<run, refresh, prevRun, srvBasic, diskBasic, diskAttrs, diskCombats,
                   start, reqLog, failedAt, buf, yielded, pagesReq, srvVars, trVars, reqVars>>

\* cache directories and servers that exercise phases 1 and 2: any basic list, any
\* small detail artifact, few events
InitPokemonSide ==
    /\ srvBasic \in BasicLists
    /\ diskBasic \in {NoFile, File(srvBasic)}
    /\ diskAttrs \in {NoFile} \cup {File(l) : l \in CachedAttrLists}
    /\ diskCombats = NoCombats
    /\ total = 1
    /\ per_page_cfg = per_page_combats_default
    /\ max_combats = max_combats_default

\* cache directories and servers that exercise phase 3: one pokemon, event totals
\* around the checkpoint period, an events artifact absent or complete (a partial or
\* truncated one is left by an interrupted run), the default page size with a cap
\* above or below the total, or a larger page size
InitEventsSide ==
    /\ srvBasic = <<1>>
    /\ diskBasic = File(srvBasic)
    /\ diskAttrs = File(<<Rec(1, 0)>>)
    /\ total \in EvTotals
    /\ diskCombats \in {NoCombats, File(total)}
    /\ per_page_cfg \in {per_page_combats_default, 3 * per_page_combats_default}
    /\ max_combats \in {max_combats_default, CheckpointEvery + per_page_combats_default}
    /\ per_page_cfg # per_page_combats_default => max_combats = max_combats_default

\* before the first run of extract_all
InitExtract ==
    /\ InitPokemonSide \/ InitEventsSide
    /\ run = 0
    /\ refresh = FALSE
    /\ xpc = "idle"
    /\ outcome = "none"
    /\ prevRun = [outcome |-> "none", refresh |-> FALSE]
    /\ start = [basic |-> NoFile, attrs |-> NoFile, combats |-> NoCombats]
    /\ pokemon_basic = <<>>
    /\ attributes = <<>>
    /\ missing_ids = <<>>
    /\ combats = 0
    /\ evLeft = 0
    /\ reqLog = <<>>
    /\ failedAt = 0
    /\ TransformOff
    /\ which = "combats"
    /\ srvPP = per_page_cfg
    /\ missing = {}
    /\ ppc = "off"
    /\ page = 1
    /\ data = [per_page |-> Missing, total |-> Missing]
    /\ buf = <<>>
    /\ yielded = <<>>
    /\ pagesReq = <<>>
    /\ token = NoToken
    /\ pc = "idle"
    /\ attempt = 0
    /\ hdr = NoToken
    /\ result = 0
    /\ log = <<>>
    /\ calls = 0
    /\ lastLogin = NoLogin
    /\ session = NewSession

NextExtract ==
    \/ RunStart
    \/ P1Reuse
    \/ P1ReuseFails
    \/ P1Fetch
    \/ P1FetchFails
    \/ P1Open
    \/ P1Write
    \/ P2Begin
    \/ P2BeginFails
    \/ P2Fetch
    \/ P2FetchFails
    \/ P2Merge
    \/ P2Open
    \/ P2Write
    \/ P3Skip
    \/ P3Begin
    \/ P3FetchPage
    \/ P3FetchFails
    \/ RaiseForStatus
    \/ P3Yield
    \/ P3CheckpointOpen
    \/ P3Checkpoint
    \/ P3Resume
    \/ P3PageEnd
    \/ P3FinalOpen
    \/ P3FinalWrite
    \/ P3Finish
    \/ Kill

SpecExtract == InitExtract /\ [][NextExtract]_vars

(* ------------------------------ transform ------------------------------ *)

\* .round(4): rates are kept in units of 1/10000
RateScale == 10000

\* the names that stand in the three columns of the combats table
Names == {"A", "B", "C"}

\* one row of `combats` after the columns were cut to three and mapped to names
CombatRows == [first_pokemon : Names, second_pokemon : Names, winner : Names]

\* the rows the API serves: two different participants, one of them the winner
ServedRows ==
    {r \in CombatRows : /\ r.first_pokemon # r.second_pokemon
                        /\ r.winner \in {r.first_pokemon, r.second_pokemon}}

\* the tables of at most n rows out of R, the empty one included
TablesOf(R, n) == UNION {[1..k -> R] : k \in 0..n}

\* the tables transform may be given: served rows, and shorter tables of any rows
CombatTables == TablesOf(ServedRows, MaxEvents) \cup TablesOf(CombatRows, MaxEvents - 1)

\* Series.value_counts() of column col over the rows R of df
ValueCounts(df, R, col) ==
    [n \in {df[i][col] : i \in R} |-> Cardinality({i \in R : df[i][col] = n})]

\* combats.groupby("winner").size()
WinsOf(df) == ValueCounts(df, DOMAIN df, "winner")

\* combats[combats["winner"] == combats["first_pokemon"]]["second_pokemon"].value_counts()
LosersFirst(df) ==
    ValueCounts(df, {i \in DOMAIN df : df[i].winner = df[i].first_pokemon}, "second_pokemon")

\* combats[combats["winner"] == combats["second_pokemon"]]["first_pokemon"].value_counts()
LosersSecond(df) ==
    ValueCounts(df, {i \in DOMAIN df : df[i].winner = df[i].second_pokemon}, "first_pokemon")

\* the orders value_counts() may give its index: counts descending (sort_values with
\* the default sort, which is not stable: equal counts stand in any order)
CountOrders(c) ==
    {o \in [1..Cardinality(DOMAIN c) -> DOMAIN c] :
        \A i, j \in DOMAIN o : i < j => o[i] # o[j] /\ c[o[i]] >= c[o[j]]}

\* a.add(b, fill_value=0): the values
SeriesAdd(a, b) ==
    [n \in DOMAIN a \cup DOMAIN b |->
        (IF n \in DOMAIN a THEN a[n] ELSE 0) + (IF n \in DOMAIN b THEN b[n] ELSE 0)]

\* the pandas releases transform may run on (the repository pins none): "1.x" is any
\* release before 2.0, "2.0" is 2.0 or 2.1, "2.2" is 2.2 or later
PandasReleases == {"1.x", "2.0", "2.2"}

\* an index without a name
NoName == "None"

\* the name of the index of column.value_counts(): the column from pandas 2.0 on
CountsIndexName(p, col) == IF p = "1.x" THEN NoName ELSE col

\* an outer join always sorts its keys lexicographically from pandas 2.2 on. Before,
\* pd.merge(..., how="outer") puts the keys of the left table first, then the other keys
\* of the right table, and the join of an index with an empty one is that index as it is
OuterJoinSorts(p) == p = "2.2"

\* the names in lexicographic order
NameOrder == <<"A", "B", "C">>

\* the outer join of index o with an empty index
JoinEmpty(o, p) ==
    IF OuterJoinSorts(p)
    THEN SelectSeq(NameOrder, LAMBDA n : \E k \in DOMAIN o : o[k] = n)
    ELSE o

\* a.add(b, fill_value=0): the index, for index orders oa, ob and index names na, nb.
\* Equal indexes are not aligned, the result has the index of a; an index joined with
\* an empty one keeps its name; otherwise the sorted union, named only when both names
\* agree
AddIndex(oa, na, ob, nb, p) ==
    IF oa = ob THEN [order |-> oa, name |-> na]
    ELSE IF ob = <<>> THEN [order |-> JoinEmpty(oa, p), name |-> na]
    ELSE IF oa = <<>> THEN [order |-> JoinEmpty(ob, p), name |-> nb]
    ELSE [order |-> SelectSeq(NameOrder, LAMBDA n : \/ \E k \in DOMAIN oa : oa[k] = n
                                                  \/ \E k \in DOMAIN ob : ob[k] = n),
          name |-> IF na = nb THEN na ELSE NoName]

\* .reset_index() labels the column of an unnamed index "index", and
\* .rename(columns={"index": "name"}) renames that label only
KeyLabel(ixname) ==
    LET label == IF ixname = NoName THEN "index" ELSE ixname
    IN  IF label = "index" THEN "name" ELSE label

\* lines 175-179 for value_counts orders oa, ob of the two loser counts under pandas p
LossesOf(df, oa, ob, p) ==
    LET ix == AddIndex(oa, CountsIndexName(p, "second_pokemon"),
                       ob, CountsIndexName(p, "first_pokemon"), p)
    IN  [key |-> KeyLabel(ix.name), index |-> ix.order,
         count |-> SeriesAdd(LosersFirst(df), LosersSecond(df))]

\* 2^k mod n
RECURSIVE Pow2Mod(_, _)
Pow2Mod(k, n) == IF k = 0 THEN 1 % n ELSE (2 * Pow2Mod(k - 1, n)) % n

\* the binary exponent of the quotient m / d (m, d > 0): the e with 2^e <= m / d < 2^(e+1)
RECURSIVE ExponentUp(_, _, _)
ExponentUp(m, d, e) == IF 2 * Pow2(e) * d <= m THEN ExponentUp(m, d, e + 1) ELSE e

RECURSIVE ExponentDown(_, _, _)
ExponentDown(m, d, j) == IF Pow2(j) * m >= d THEN 0 - j ELSE ExponentDown(m, d, j + 1)

Exponent(m, d) == IF m >= d THEN ExponentUp(m, d, 0) ELSE ExponentDown(m, d, 1)

\* Series.round(4) on float64 is rint(x * 10**4) / 10**4. For a quotient wins / total
\* whose exact value is the tie m / 20000 (m odd), the double nearest to m / 20000 is
\* N * 2^(e-57) with N the 53-bit integer nearest to m * 2^(52-e) / 625 (e the exponent
\* of m / 625); d625 = 625 * N - m * 2^(52-e) is the error of that division, and the
\* product with 10**4 is m / 2 + d625 * 2^(e-53) before it is rounded to a double:
\* it rounds to m / 2 itself when the error is at most half a unit in the last place of
\* m, to the next double above or below otherwise. rint then goes up, down, or on
\* an exact tie to the even neighbour.
round4_tie(m) ==
    LET k == (m - 1) \div 2
        e == Exponent(m, 625)
        s == Exponent(m, 1) - e
        r == (m * Pow2Mod(52 - e, 625)) % 625
        d625 == IF 2 * r < 625 THEN 0 - r ELSE 625 - r
    IN  IF 2 * d625 > Pow2(s) THEN k + 1
        ELSE IF 2 * (0 - d625) > Pow2(s) THEN k
        ELSE IF k % 2 = 0 THEN k ELSE k + 1

\* (wins / total_combats).round(4).fillna(0), in units of 1/10000: 0/0 is NaN and becomes
\* 0; away from a tie the float64 computation gives the nearest multiple of 1/10000
\* (the error of the double is far below the distance 1/(2t) to the tie)
win_rate(w, t) ==
    IF t = 0 THEN 0
    ELSE IF (2 * RateScale * w) % t = 0 /\ ((2 * RateScale * w) \div t) % 2 = 1
         THEN round4_tie((2 * RateScale * w) \div t)
         ELSE (2 * RateScale * w + t) \div (2 * t)

\* pd.merge(wins, losses, on="name", how="outer").fillna(0), total_combats, win_rate: one
\* row per name of either table; wins is in lexicographic order (groupby), losses in
\* the order of its index
StatsOf(w, l, p) ==
    LET keys == IF OuterJoinSorts(p)
                THEN SelectSeq(NameOrder, LAMBDA n : n \in DOMAIN w \cup DOMAIN l.count)
                ELSE SelectSeq(NameOrder, LAMBDA n : n \in DOMAIN w)
                     \o SelectSeq(l.index, LAMBDA n : n \notin DOMAIN w)
    IN  [k \in DOMAIN keys |->
            LET n == keys[k]
                wn == IF n \in DOMAIN w THEN w[n] ELSE 0
                ln == IF n \in DOMAIN l.count THEN l.count[n] ELSE 0
            IN  [name |-> n, wins |-> wn, losses |-> ln, total_combats |-> wn + ln,
                 win_rate |-> win_rate(wn, wn + ln)]]

\* the rows of attrs with the name of one row of stats, each joined to that row; the row
\* with a NaN id when there is none
JoinRow(row, at) ==
    LET hits == SelectSeq(at, LAMBDA a : a.name = row.name)
    IN  IF hits = <<>>
        THEN <<[name |-> row.name, wins |-> row.wins, losses |-> row.losses,
                total_combats |-> row.total_combats, win_rate |-> row.win_rate,
                id |-> Missing]>>
        ELSE [k \in DOMAIN hits |->
                 [name |-> row.name, wins |-> row.wins, losses |-> row.losses,
                  total_combats |-> row.total_combats, win_rate |-> row.win_rate,
                  id |-> hits[k].id]]

RECURSIVE LeftMerge(_, _)
\* stats.merge(attrs[[...]], on="name", how="left"): the rows of stats in their order
LeftMerge(rows, at) ==
    IF rows = <<>> THEN <<>> ELSE JoinRow(Head(rows), at) \o LeftMerge(Tail(rows), at)

\* row a sorts before row b under ["win_rate", "wins"], ascending=[False, False]
SortsBefore(a, b) ==
    \/ a.win_rate > b.win_rate
    \/ a.win_rate = b.win_rate /\ a.wins > b.wins

RECURSIVE InsertRow(_, _)
\* r put into the sorted rows, behind the rows it does not sort before
InsertRow(sorted, r) ==
    IF sorted = <<>> THEN <<r>>
    ELSE IF SortsBefore(r, Head(sorted)) THEN <<r>> \o sorted
    ELSE <<Head(sorted)>> \o InsertRow(Tail(sorted), r)

RECURSIVE SortedRows(_, _)
\* stats.sort_values(["win_rate", "wins"], ascending=[False, False]): rows that tie on
\* both columns keep their order
SortedRows(done, rows) ==
    IF rows = <<>> THEN done ELSE SortedRows(InsertRow(done, Head(rows)), Tail(rows))

\* line 149: `if not combats.empty` is false, no statistics are computed
SkipStats ==
    /\ tpc = "loaded"
    /\ combats_df = <<>>
    /\ tpc' = "done"
    /\ UNCHANGED <<pandas, attrs_df, combats_df, wins, losses, stats, srvVars, pagVars, reqVars, extVars>>

\* line 173
ComputeWins ==
    /\ tpc = "loaded"
    /\ combats_df # <<>>
    /\ wins' = WinsOf(combats_df)
    /\ tpc' = "wins"
    /\ UNCHANGED <<pandas, attrs_df, combats_df, losses, stats, srvVars, pagVars, reqVars, extVars>>

\* lines 175-179
ComputeLosses ==
    /\ tpc = "wins"
    /\ \E oa \in CountOrders(LosersFirst(combats_df)), ob \in CountOrders(LosersSecond(combats_df)) :
          losses' = LossesOf(combats_df, oa, ob, pandas)
    /\ tpc' = "losses"
    /\ UNCHANGED <<pandas, attrs_df, combats_df, wins, stats, srvVars, pagVars, reqVars, extVars>>

\* lines 182-184; pd.merge raises KeyError when losses has no column "name"
MergeStats ==
    /\ tpc = "losses"
    /\ IF losses.key = "name"
       THEN /\ stats' = StatsOf(wins, losses, pandas)
            /\ tpc' = "merged"
       ELSE /\ tpc' = "raised"
            /\ UNCHANGED stats
    /\ UNCHANGED <<pandas, attrs_df, combats_df, wins, losses, srvVars, pagVars, reqVars, extVars>>

\* lines 187-188: if not attrs.empty, stats is merged with the columns of attrs
EnrichStats ==
    /\ tpc = "merged"
    /\ stats' = IF attrs_df # <<>> THEN LeftMerge(stats, attrs_df) ELSE stats
    /\ tpc' = "enriched"
    /\ UNCHANGED <<pandas, attrs_df, combats_df, wins, losses, srvVars, pagVars, reqVars, extVars>>

\* line 191: stats.sort_values(..., inplace=True)
SortStats ==
    /\ tpc = "enriched"
    /\ stats' = SortedRows(<<>>, stats)
    /\ tpc' = "done"
    /\ UNCHANGED <<pandas, attrs_df, combats_df, wins, losses, srvVars, pagVars, reqVars, extVars>>

\* one row of attrs: id and name
AttrRows == [id : 1..MaxId, name : {"A", "B"}]

\* the attrs tables transform may read (a name or a whole record may stand twice)
AttrTables == TablesOf(AttrRows, MaxAttrs)

\* t combats of A against B, the first w won by A
TableOf(w, t) ==
    [i \in 1..t |-> [first_pokemon |-> "A", second_pokemon |-> "B",
                     winner |-> IF i <= w THEN "A" ELSE "B"]]

\* tables whose quotients wins / total_combats lie halfway between two multiples of
\* 1/10000: exactly so in float64 (n/32), or by the exact quotient only (n/800)
HalfwayTables == {TableOf(w, t) : w \in {1, 17}, t \in {32}} \cup
                 {TableOf(w, t) : w \in {17, 81, 139}, t \in {800}}

\* a small combats table, no attrs
InitStatsSide ==
    /\ combats_df \in CombatTables
    /\ attrs_df = <<>>

\* served combats with an attrs table
InitEnrichSide ==
    /\ combats_df \in TablesOf(ServedRows, MaxEvents - 2)
    /\ attrs_df \in AttrTables

\* long tables of served combats, no attrs
InitRoundingSide ==
    /\ combats_df \in HalfwayTables
    /\ attrs_df = <<>>

\* transform has read attrs and combats and normalised the names of the combats table
InitTransform ==
    /\ InitStatsSide \/ InitEnrichSide \/ InitRoundingSide
    /\ pandas \in PandasReleases
    /\ tpc = "loaded"
    /\ wins = <<>>
    /\ losses = <<>>
    /\ stats = <<>>
    /\ token = NoToken
    /\ pc = "idle"
    /\ attempt = 0
    /\ hdr = NoToken
    /\ result = 0
    /\ log = <<>>
    /\ calls = 0
    /\ lastLogin = NoLogin
    /\ session = NewSession
    /\ which = "none"
    /\ total = 0
    /\ srvPP = 1
    /\ missing = {}
    /\ per_page_cfg = 1
    /\ max_combats = 0
    /\ ppc = "off"
    /\ page = 1
    /\ data = [per_page |-> Missing, total |-> Missing]
    /\ buf = <<>>
    /\ yielded = <<>>
    /\ pagesReq = <<>>
    /\ ExtractOff

NextTransform ==
    \/ SkipStats
    \/ ComputeWins
    \/ ComputeLosses
    \/ MergeStats
    \/ EnrichStats
    \/ SortStats

SpecTransform == InitTransform /\ [][NextTransform]_vars

(* -------------------- claims about _request (C1-C6) ------------------- *)

\* positions of the data requests in a log
ReqIdx(l) == {i \in DOMAIN l : l[i].ev = "request"}

\* the loop iteration (0-based) that sent the request at position i
AttemptAt(l, i) == Cardinality({j \in ReqIdx(l) : j < i})

NumRequests == Cardinality(ReqIdx(log))

Transient(s) == s \in {401, 429}

\* 2^attempt seconds, written out for the four iterations that can sleep
Backoff(a) == <<1, 2, 4, 8>>[a + 1]

\* C1: one call of _request sends the data request at most 5 times, whatever the
\* server answers, and has stopped once the 5th has been sent.
C1_AtMostFiveSends ==
    /\ NumRequests <= 5
    /\ NumRequests = 5 => pc = "done"

\* five sends, answered with a mix of 401 and 429
C1_Witness ==
    /\ NumRequests = 5
    /\ \E i, j \in ReqIdx(log) : log[i].status = 401 /\ log[j].status = 429

\* C2: when all 5 attempts are answered 401 or 429, _request returns the 5th
\* response without raising, and nothing (no login, no sleep) follows the 5th send.
C2_FifthTransientReturned ==
    (NumRequests = 5 /\ \A i \in ReqIdx(log) : Transient(log[i].status))
        => /\ pc = "done"
           /\ log[Len(log)].ev = "request"
           /\ result = log[Len(log)].status

\* five transient answers, the last one a 401, returned
C2_Witness ==
    /\ NumRequests = 5
    /\ \A i \in ReqIdx(log) : Transient(log[i].status)
    /\ \E i \in ReqIdx(log) : log[i].status = 429
    /\ result = 401
    /\ pc = "done"

\* C3: a 429 with attempts left, whatever its Retry-After header, is followed by
\* exactly one sleep, of the header's seconds when the header is sent with a number
\* and of 2^attempt when no header is sent, and then by the same request again with the
\* same Authorization, with no login in between. (A header sent empty or with a text
\* that is no number names no duration; the sleep and the retry are still required.)
C3_SleepOnceThenResend ==
    \A i \in ReqIdx(log) :
        (log[i].status = 429 /\ AttemptAt(log, i) < 4)
            => /\ i + 1 <= Len(log)
               /\ log[i + 1].ev = "sleep"
               /\ log[i].ra.kind = "secs" => log[i + 1].d = log[i].ra.secs
               /\ log[i].ra.kind = "absent" => log[i + 1].d = Backoff(AttemptAt(log, i))
               /\ i + 1 = Len(log) => pc = "send" /\ hdr = log[i].tok
               /\ i + 2 <= Len(log) =>
                    log[i + 2].ev = "request" /\ log[i + 2].tok = log[i].tok

\* C4: a 401 with attempts left is followed by exactly one login and no sleep; when
\* that login succeeds the next send carries the token it returned (and the client
\* stores it), when it fails the call raises without another send.
C4_ReloginOnceThenResend ==
    \A i \in ReqIdx(log) :
        (log[i].status = 401 /\ AttemptAt(log, i) < 4)
            => /\ i + 1 <= Len(log)
               /\ log[i + 1].ev = "login"
               /\ log[i + 1].tok = NoToken => i + 1 = Len(log) /\ pc = "raised"
               /\ (log[i + 1].tok # NoToken /\ i + 1 = Len(log)) =>
                    pc = "send" /\ hdr = log[i + 1].tok /\ token = log[i + 1].tok
               /\ i + 2 <= Len(log) =>
                    log[i + 2].ev = "request" /\ log[i + 2].tok = log[i + 1].tok

\* one 401 sent with token 1, one login returning token 2, one retry with token 2
C4_Witness ==
    /\ pc = "done"
    /\ log = <<RequestEv(1, 401, NoRetryAfter),
               LoginEv([kind |-> "ok", tok |-> 2]),
               RequestEv(2, 200, NoRetryAfter)>>

\* C5: within one _request call at most one re-login is performed, however many
\* 401 responses arrive.
C5_AtMostOneRelogin ==
    Cardinality({i \in DOMAIN log : log[i].ev = "login" /\ AttemptAt(log, i) > 0}) <= 1

\* C6: a response that is neither 401 nor 429 is returned on the attempt that
\* received it: it is the last thing the call did, and the call's result.
C6_OtherStatusReturnedAtOnce ==
    \A i \in ReqIdx(log) :
        ~Transient(log[i].status)
            => i = Len(log) /\ pc = "done" /\ result = log[i].status

\* a 500 received on a retry (after a 429 and a 401) and returned
C6_Witness ==
    /\ pc = "done"
    /\ result = 500
    /\ NumRequests = 3
    /\ \E i, j \in ReqIdx(log) : log[i].status = 401 /\ log[j].status = 429

(* ------------------ claims about the paginators (C7-C10) -------------- *)

\* the server reports total and serves the record list in every envelope
WellFormed == "list" \notin missing /\ "total" \notin missing

\* the first page p >= 1 with p * pp >= n
FirstPageReaching(n, pp) ==
    CHOOSE p \in 1..(n + 1) : p * pp >= n /\ \A q \in 1..(p - 1) : q * pp < n

\* <<1, 2, ..., n>>
UpTo(n) == [i \in 1..n |-> i]

\* C7: against a server with a constant total that serves page p as the records
\* (p-1)*per_page+1 .. min(p*per_page, total), iter_all_pokemon yields the records
\* 1..total, each once and in server order.
C7_PokemonYieldsAllInOrder ==
    (which = "pokemon" /\ WellFormed)
        => /\ Len(yielded) <= total
           /\ yielded = UpTo(Len(yielded))
           /\ ppc = "done" => yielded = UpTo(total)

\* a finished run over three pages, the server slicing by 2 where 3 was asked for
C7_Witness ==
    /\ which = "pokemon" /\ WellFormed /\ ppc = "done"
    /\ total = 5 /\ srvPP = 2 /\ per_page_cfg = 3 /\ "per_page" \notin missing
    /\ yielded = <<1, 2, 3, 4, 5>>

\* C8: iter_all_combats yields min(total, max_combats) records, for every cap,
\* per_page and total (stated here for caps of at least 1; a cap of 0 is C9's case).
C8_CombatsYieldMinOfTotalAndCap ==
    (which = "combats" /\ WellFormed /\ ppc = "done" /\ max_combats >= 1)
        => Len(yielded) = Min(total, max_combats)

\* C9: iter_all_combats never yields more than max_combats records, for every
\* max_combats >= 0 and every total, and once it has returned the last page it
\* requested is the page it stopped on.
C9_CombatsNeverAboveCap ==
    (which = "combats" /\ WellFormed)
        => /\ Len(yielded) <= max_combats
           /\ ppc = "done" => pagesReq = UpTo(page)

\* the page on which a generator stops: the first with page * per_page >= total, and
\* for iter_all_combats the first with page * per_page >= min(total, max_combats)
StopPage ==
    IF which = "pokemon" THEN FirstPageReaching(total, srvPP)
    ELSE FirstPageReaching(Min(total, max_combats), srvPP)

\* C10 as stated: both generators request exactly the pages 1..k, k the first page
\* with page * per_page >= total (per_page the response's); stated here for caps of
\* at least 1.
C10_BothRequestPagesUpToK ==
    (WellFormed /\ ppc = "done" /\ max_combats >= 1) => pagesReq = UpTo(FirstPageReaching(total, srvPP))

\* C10 amended: both generators terminate, requesting pages 1, 2, ... in ascending
\* order, each once, the stop test using the response's per_page; iter_all_pokemon
\* ends on page k, iter_all_combats on the first page with
\* page * per_page >= min(total, max_combats), which is k or earlier.
C10_PagesAscendingToStopPage ==
    WellFormed
        => /\ pagesReq = UpTo(Len(pagesReq))
           /\ Len(pagesReq) <= StopPage
           /\ StopPage <= FirstPageReaching(total, srvPP)
           /\ ppc = "done" => Len(pagesReq) = StopPage
           /\ ppc \in {"fetch", "yield", "suspended"} => page <= StopPage

\* the server clamps the page size from 3 to 1; pages 1..4 of 4 records were requested
C10_Witness ==
    /\ which = "pokemon" /\ WellFormed /\ ppc = "done"
    /\ "per_page" \notin missing /\ per_page_cfg = 3 /\ srvPP = 1 /\ total = 4
    /\ pagesReq = <<1, 2, 3, 4>>

(* ------------------------ claims about extract_all --------------------- *)

\* phase 2 of the current run has written pokemon_attributes.json
PhaseTwoDone ==
    /\ outcome # "none"
    /\ xpc \in {"p3", "p3run", "p3raise", "p3ckopen", "p3ckwrite", "p3write", "p3return", "end"}

\* the ids of the basic collection of the current run
BasicIds == {pokemon_basic[k] : k \in DOMAIN pokemon_basic}

\* the requests of the current run of one kind, in the order sent
ReqsOf(k) == SelectSeq(reqLog, LAMBDA r : r.kind = k)

\* the ids of the GET /pokemon/{id} requests of the current run
DetailIds == {ReqsOf("detail")[k].arg : k \in DOMAIN ReqsOf("detail")}

\* C11: a second run after a finished first run, both without the refresh override and
\* with the server unchanged, sends no request at all, reuses the basic artifact
\* verbatim and leaves the three artifacts exactly as the first run left them.
C11_SecondRunIdempotent ==
    (run >= 2 /\ prevRun.outcome = "finished" /\ ~prevRun.refresh /\ ~refresh
        /\ outcome = "finished")
    => /\ reqLog = <<>>
       /\ pokemon_basic = start.basic.content
       /\ diskBasic = start.basic
       /\ diskAttrs = start.attrs
       /\ diskCombats = start.combats

\* C12: with a detail cache and no refresh, phase 2 requests exactly the basic ids that
\* are absent from the cache, each of them once, and the artifact it writes contains
\* every basic id.
C12_FetchesExactlyMissingOnce ==
    (PhaseTwoDone /\ ~refresh /\ start.attrs.exists)
    => /\ DetailIds = BasicIds \ IdsOf(start.attrs.content)
       /\ Len(ReqsOf("detail")) = Cardinality(BasicIds \ IdsOf(start.attrs.content))
       /\ BasicIds \subseteq IdsOf(diskAttrs.content)

\* C13: once phase 2 has written the detail artifact, no two of its records share an
\* id, in every branch (cache used, cache absent, refresh) and for every basic list.
C13_OneRecordPerIdentity ==
    PhaseTwoDone
    => \A j, k \in DOMAIN diskAttrs.content :
          diskAttrs.content[j].id = diskAttrs.content[k].id => j = k

\* C14: a run that finds the events artifact and has no refresh override sends no
\* /combats request and leaves the artifact as it found it, whatever it holds.
C14_EventsArtifactTrusted ==
    (outcome # "none" /\ ~refresh /\ start.combats.exists)
    => /\ ReqsOf("events") = <<>>
       /\ diskCombats = start.combats

\* a run interrupted after the 500 checkpoint of a 1000-record fetch is followed by a run
\* without refresh, which finishes and leaves the 500 records
C14_Witness ==
    /\ run >= 2 /\ prevRun.outcome \in {"killed", "aborted"}
    /\ ~refresh /\ outcome = "finished"
    /\ total = 2 * CheckpointEvery
    /\ start.combats = File(CheckpointEvery)
    /\ diskCombats = File(CheckpointEvery)
    /\ reqLog = <<>>

\* phase 3 of the current run is in its fetch branch and has completed a checkpoint write
AfterFirstCheckpoint ==
    /\ xpc \in {"p3run", "p3raise", "p3ckopen", "p3ckwrite", "p3write"}
    /\ \/ combats > CheckpointEvery
       \/ combats = CheckpointEvery /\ xpc \in {"p3run", "p3raise", "p3write"}

\* C15: while phase 3 fetches (or after it was interrupted), from the first checkpoint on
\* the artifact always holds the first LastCheckpoint(len(combats)) records (the
\* checkpoint before that one until the write of line 117 has begun); after a normal
\* end of the fetch it holds all of them. Events are an ordered server sequence, so a
\* prefix is given by its length.
C15_CheckpointEvery500 ==
    /\ AfterFirstCheckpoint
          => diskCombats = File(LastCheckpoint(IF xpc = "p3ckopen" THEN combats - 1 ELSE combats))
    /\ (xpc \in {"p3return", "end"} /\ ~UseCache(start.combats)) => diskCombats = File(combats)

\* basic < detail < events
PhaseRank(k) == CASE k = "basic" -> 1 [] k = "detail" -> 2 [] k = "events" -> 3

\* C16: a data request that keeps an error status is the last request of its run, and
\* the run does nothing after it but raise: it is about to raise, has aborted, or was
\* killed from outside before it could, and never goes on or finishes; the requests of a
\* run are ordered basic, details, events; what phases 1 and 2 wrote in this run is
\* still on disk, unchanged, while the run goes on and after it has aborted or finished.
C16_HttpErrorAbortsRun ==
    /\ failedAt > 0
          => /\ Len(reqLog) = failedAt
             /\ \/ outcome = "aborted"
                \/ outcome = "killed"
                \/ outcome = "running" /\ xpc \in RaisePositions
    /\ \A j, k \in DOMAIN reqLog : j < k => PhaseRank(reqLog[j].kind) <= PhaseRank(reqLog[k].kind)
    /\ (outcome # "none" /\ xpc \notin {"idle", "p1", "p1raise", "p1open", "p1write"}
            /\ ~UseCache(start.basic))
          => diskBasic = File(pokemon_basic)
    /\ PhaseTwoDone => diskAttrs = File(attributes)

\* a run that fetched the basic list and a detail, then failed on an events page
C16_Witness ==
    /\ outcome = "aborted" /\ failedAt > 1
    /\ reqLog[1].kind = "basic"
    /\ ReqsOf("detail") # <<>>
    /\ reqLog[failedAt].kind = "events"
    /\ diskBasic = File(pokemon_basic) /\ diskAttrs = File(attributes)

\* C17: after a run aborted, no artifact holds fewer records than before the run,
\* for artifacts that held nothing the server does not still serve.
C17_NoArtifactShrinksOnAbort ==
    (/\ outcome = "aborted"
     /\ Len(start.basic.content) <= Len(srvBasic)
     /\ IdsOf(start.attrs.content) \subseteq {srvBasic[k] : k \in DOMAIN srvBasic}
     /\ Len(start.attrs.content) = Cardinality(IdsOf(start.attrs.content))
     /\ start.combats.content <= total)
    => /\ Len(diskBasic.content) >= Len(start.basic.content)
       /\ Len(diskAttrs.content) >= Len(start.attrs.content)
       /\ diskCombats.content >= start.combats.content

(* --------------------- claims about response shapes -------------------- *)

\* C18: a paginator whose list responses lack the record list or `total` never
\* finishes normally: it does not end its sequence, empty or shortened, without an error.
C18_ShapeAnomalyIsFatal ==
    (pagesReq # <<>> /\ ("list" \in missing \/ "total" \in missing)) => ppc # "done"

(* --------------------------- claims about login ------------------------ *)

\* C19: a 200 login response that carries a token under access_token, token or jwt
\* makes login() succeed and store a token; login() raises only when it carries none.
C19_AnyTokenFieldAccepted ==
    lastLogin.resp.kind \in {"ok", "alt_field"}
    => /\ token # NoToken
       /\ log[Len(log)].ev = "login" => pc # "raised"

\* C20: after a login() that failed on an error status or on a body without a token,
\* the stored token is the one held before the call.
C20_FailedLoginKeepsToken ==
    lastLogin.resp.kind \in {"http_error", "rate_limited", "no_token"} => token = lastLogin.held

\* C20, as the code has it: login() that fails sets no token. On an error status the
\* stored token is the one held before the call; on a 200 body without a token the
\* stored token is absent afterwards, whether or not one was held; either way the
\* call has raised.
C20_FailedLoginSetsNoToken ==
    /\ StatusRaises(LoginStatus(lastLogin.resp)) => token = lastLogin.held /\ pc = "raised"
    /\ lastLogin.resp.kind = "no_token" => token = NoToken /\ pc = "raised"

\* a held token was rejected with 401 and the re-login got a 200 body without a token
C20_Witness ==
    /\ lastLogin.resp.kind = "no_token"
    /\ lastLogin.held # NoToken
    /\ token = NoToken
    /\ pc = "raised"

(* ------------------- claims about the session token -------------------- *)

\* the positions of the login() calls of the running call that came before position i
LoginsBefore(i) == {j \in DOMAIN log : j < i /\ log[j].ev = "login"}

\* the largest member of a non-empty set of positions
Last(S) == CHOOSE j \in S : \A k \in S : k <= j

\* C21: every data request carries a non-empty token, which is the token of the login
\* that last succeeded on this client (the one stored, and when the running call has
\* logged in, the one its latest login returned); no request goes out while the stored
\* token is absent.
C21_BearerOnEveryRequest ==
    /\ \A i \in ReqIdx(log) :
          /\ log[i].tok # NoToken
          /\ LoginsBefore(i) # {} => log[i].tok = log[Last(LoginsBefore(i))].tok
    /\ pc = "send" => token # NoToken /\ hdr = token

\* a call that logged in implicitly, was answered 401 and 429, and ended on a third send
C21_Witness ==
    /\ pc = "done"
    /\ log[1].ev = "login"
    /\ NumRequests = 3
    /\ \E i, j \in ReqIdx(log) : log[i].status = 401 /\ log[j].status = 429
    /\ \E i, j \in ReqIdx(log) : log[i].tok # log[j].tok

\* C22: a login answered 429, the re-login after a 401 included, is retried and does
\* not make the call raise.
C22_LoginRateLimitRetried ==
    (log # <<>> /\ log[Len(log)].ev = "login" /\ log[Len(log)].status = 429)
        => pc # "raised"

(* -------------------------- claims about transform --------------------- *)

\* the rows of the table, and those in which name n stands as a participant
RowsWith(n) ==
    {i \in DOMAIN combats_df : n \in {combats_df[i].first_pokemon, combats_df[i].second_pokemon}}

\* every row has two different participants and one of them as winner
ProperCombats ==
    \A i \in DOMAIN combats_df :
        /\ combats_df[i].first_pokemon # combats_df[i].second_pokemon
        /\ combats_df[i].winner \in {combats_df[i].first_pokemon, combats_df[i].second_pokemon}

\* a is w / t rounded to 4 decimal places, in units of 1/10000 (t > 0)
IsRounded4(a, w, t) ==
    /\ 2 * (RateScale * w - a * t) <= t
    /\ 2 * (a * t - RateScale * w) <= t

\* C23: when transform has ended, every name that takes part in a combat has a row in
\* stats, and every row of that name has wins = the combats it won, losses = the combats
\* it took part in and the other one won, total_combats = wins + losses, win_rate =
\* wins / total_combats rounded to 4 places.
C23_WinRate ==
    (tpc \in {"done", "raised"} /\ ProperCombats)
    => \A n \in Names :
          RowsWith(n) # {}
          => /\ \E k \in DOMAIN stats : stats[k].name = n
             /\ \A k \in DOMAIN stats :
                   stats[k].name = n
                   => /\ stats[k].wins = Cardinality({i \in RowsWith(n) : combats_df[i].winner = n})
                      /\ stats[k].losses = Cardinality({i \in RowsWith(n) : combats_df[i].winner # n})
                      /\ stats[k].total_combats = stats[k].wins + stats[k].losses
                      /\ stats[k].total_combats > 0
                      /\ IsRounded4(stats[k].win_rate, stats[k].wins, stats[k].total_combats)

(* --------------------------- claims about backoff ---------------------- *)

\* the positions of the sleeps of the running call
SleepIdx == {i \in DOMAIN log : log[i].ev = "sleep"}

RECURSIVE TotalSlept(_)
\* the seconds slept in a log
TotalSlept(l) ==
    IF l = <<>> THEN 0
    ELSE (IF Head(l).ev = "sleep" THEN Head(l).d ELSE 0) + TotalSlept(Tail(l))

\* no response of the running call carries a Retry-After header
NoRetryAfterSeen == \A i \in ReqIdx(log) : log[i].ra.kind = "absent"

\* C24: in a call without any Retry-After header every sleep lasts 2^attempt seconds,
\* attempt being the index of the loop iteration whatever the earlier iterations were
\* answered (401 or 429); so the sleeps are values of {1, 2, 4, 8}, strictly increasing,
\* at most 4, and sum to at most 15 seconds.
C24_BackoffSharedAttempt ==
    NoRetryAfterSeen
    => /\ \A i \in SleepIdx :
             /\ log[i].d = Backoff(AttemptAt(log, i) - 1)
             /\ log[i].d \in {1, 2, 4, 8}
       /\ \A i, j \in SleepIdx : i < j => log[i].d < log[j].d
       /\ Cardinality(SleepIdx) <= 4
       /\ TotalSlept(log) <= 15

\* 429, 401, 429, 429, 200 without Retry-After: the sleeps are 1, 4 and 8 seconds
C24_Witness ==
    /\ NoRetryAfterSeen
    /\ pc = "done" /\ result = 200
    /\ NumRequests = 5
    /\ \E i \in ReqIdx(log) : log[i].status = 401
    /\ {log[i].d : i \in SleepIdx} = {1, 4, 8}
    /\ TotalSlept(log) = 13

(* ------------------------ claims about token reuse --------------------- *)

\* no operation is running on the client
Quiescent == pc \in {"idle", "done", "raised"}

\* the login() calls of the running call
LoginIdx == {i \in DOMAIN log : log[i].ev = "login"}

\* C25: on a client none of whose data responses was 401, login() has been called
\* exactly once if a data request was sent and not at all otherwise.
C25_LoginExactlyOnce ==
    (Quiescent /\ session.no401)
    => session.logins = IF session.sent THEN 1 ELSE 0

\* C25, as the code has it: on a client none of whose data responses was 401 and none
\* of whose logins failed, login() has been called exactly once if a data request was
\* sent and not at all otherwise, and the call that logged in did so once, before its
\* first data request and with nothing in between; a login that fails raises before
\* any data request of its call.
C25_LoginOnceUnlessLoginFails ==
    /\ (Quiescent /\ session.no401 /\ ~session.failed)
          => session.logins = IF session.sent THEN 1 ELSE 0
    /\ (session.no401 /\ LoginIdx # {})
          => /\ LoginIdx = {1}
             /\ Len(log) >= 2 => log[2].ev = "request"
             /\ login_raises(lastLogin.resp) => Len(log) = 1 /\ pc = "raised"

\* the second call on a client: the first logged in, this one was rate limited once
\* and sent two requests with the stored token, without a login
C25_Witness ==
    /\ calls = 2 /\ pc = "done"
    /\ session = [no401 |-> TRUE, logins |-> 1, failed |-> FALSE, sent |-> TRUE]
    /\ LoginIdx = {}
    /\ NumRequests = 2
    /\ \A i \in ReqIdx(log) : log[i].tok = token

(* ------------------------ claims about the detail cache ---------------- *)

\* C26: a run without refresh that has completed phase 2 leaves in the detail artifact
\* every record the artifact held before the run, unchanged, also the records of ids
\* that the basic collection no longer lists; an id is dropped only by a refresh run.
C26_DetailCacheOnlyGrows ==
    /\ (PhaseTwoDone /\ ~refresh)
          => \A k \in DOMAIN start.attrs.content :
                \E j \in DOMAIN diskAttrs.content :
                    diskAttrs.content[j] = start.attrs.content[k]
    /\ (PhaseTwoDone /\ ~(IdsOf(start.attrs.content) \subseteq IdsOf(diskAttrs.content)))
          => refresh

\* a finished run without refresh that found a cached id the basic collection does not
\* list, fetched a missing id and kept both
C26_Witness ==
    /\ outcome = "finished" /\ ~refresh
    /\ IdsOf(start.attrs.content) \ BasicIds # {}
    /\ ReqsOf("detail") # <<>>
    /\ IdsOf(diskAttrs.content) = IdsOf(start.attrs.content) \cup BasicIds
    /\ \E j \in DOMAIN diskAttrs.content : diskAttrs.content[j].ver = run

====
